---- MODULE Spec2Model ----
(***************************************************************************)
(* Tenant-scoped vault repository of cyvault: the vaults table, the        *)
(* request context the repository reads, the filter/query builder, and    *)
(* the repository and service operations on vaults.                       *)
(*                                                                         *)
(* Conventions.  Null is JS null/undefined and SQL NULL for string-valued *)
(* things.  Text that the code searches or sorts (name, description) is a *)
(* sequence of character codes; the empty sequence is the absent text     *)
(* (VaultRequest.toDomain stores `description || null`, so "" and null    *)
(* are one value in the table).  An optional argument is <<>> (not given) *)
(* or <<v>> (given).  A repository call either resolves with {data,       *)
(* error: null} or rejects with an error; `thrown` records which.         *)
(***************************************************************************)
EXTENDS Integers, Sequences, FiniteSets, TLC

VARIABLES
    store, now, last,               \* the vaults table, the clock, the last repository call
    heap, als, obs, mine, writer,   \* the context stores, who entered them, the last context call
    session, lookup, req,           \* the signed-in user, the users table's answer, the HTTP request
    err, resp,                      \* the error a route handler threw, the response sent for it
    pending,                        \* the updateVault call in flight
    di, callers                     \* the DI module's state, the callers of its bootstrap functions

repoVars == <<store, now, last>>

ctxVars == <<heap, als, obs, mine, writer>>

bndVars == <<session, lookup, req>>

errVars == <<err, resp>>

svcVars == <<pending, di, callers>>

vars ==
    <<store, now, last, heap, als, obs, mine, writer, session, lookup, req, err, resp,
      pending, di, callers>>

----------------------------------------------------------------------------
(* Bounds and value sets *)

MaxVaults == 2

Null == "null"

Tenants == {"tenant_A", "tenant_B"}

Users == {"user_1", "user_2"}

VaultIds == 1..MaxVaults

\* ids a caller may ask for: every id that can be stored and one that never is
QueryIds == 1..(MaxVaults + 1)

EntityStatus == {"published", "archived", "deleted"}

\* the active RequestContextStore, reduced to the two keys the repository reads;
\* Null stands for "key absent or unset" and for "no context active" alike
\* (getTenantId/getUserId throw in all three cases)
Contexts == [tenantId : Tenants \cup {Null}, userId : Users \cup {Null}]

----------------------------------------------------------------------------
(* Errors: ErrorCode, STATUS_CODES, CustomError, Err, toAppError *)

STATUS_CODES ==
    "INTERNAL_ERROR" :> 500 @@
    "VALIDATION_ERROR" :> 400 @@
    "NOT_FOUND" :> 404 @@
    "UNAUTHORIZED" :> 401 @@
    "FORBIDDEN" :> 403 @@
    "CONFLICT" :> 409 @@
    "BAD_REQUEST" :> 400 @@
    "DATABASE_ERROR" :> 500 @@
    "DATABASE_CONNECTION_ERROR" :> 503 @@
    "DATABASE_QUERY_ERROR" :> 500 @@
    "DATABASE_CONSTRAINT_ERROR" :> 409 @@
    "USER_NOT_FOUND" :> 404 @@
    "USER_ALREADY_EXISTS" :> 409 @@
    "USER_INVALID_CREDENTIALS" :> 401 @@
    "USER_ACCOUNT_DISABLED" :> 403 @@
    "TENANT_NOT_FOUND" :> 404 @@
    "TENANT_ALREADY_EXISTS" :> 409 @@
    "TENANT_ACCESS_DENIED" :> 403 @@
    "TOKEN_EXPIRED" :> 401 @@
    "TOKEN_INVALID" :> 401 @@
    "INSUFFICIENT_PERMISSIONS" :> 403

\* new CustomError(code, ...): statusCode = STATUS_CODES[code]
CustomError(code) ==
    [kind |-> "CustomError", code |-> code, statusCode |-> STATUS_CODES[code]]

\* a plain JS Error (Error, TypeError, NoContextError, ContextKeyError, a driver
\* error): no code, no statusCode
PlainError(name) == [kind |-> name, code |-> Null, statusCode |-> 0]

NoError == [kind |-> "none", code |-> Null, statusCode |-> 0]

\* toAppError: an AppError is returned as it is, any other Error is wrapped by
\* ErrorBuilder.wrap into INTERNAL_ERROR
toAppError(e) ==
    IF e.kind = "CustomError" THEN e ELSE CustomError("INTERNAL_ERROR")

\* a repository call that resolved with {data, error: null}
Resolved(data) == [data |-> data, error |-> NoError, thrown |-> FALSE]

\* a call whose promise rejected with e
Rejected(e) == [data |-> <<>>, error |-> e, thrown |-> TRUE]

\* withErrorHandling(fn): the value of fn, or toAppError of what fn threw
withErrorHandling(r) ==
    IF r.thrown THEN Rejected(toAppError(r.error)) ELSE r

----------------------------------------------------------------------------
(* The vaults table *)

NoRow == [id |-> 0]

Stored(s) == {s[i] : i \in {j \in DOMAIN s : s[j].id # 0}}

IsStored(s, id) == id \in DOMAIN s /\ s[id].id # 0

----------------------------------------------------------------------------
(* VaultFilter / BaseFilter *)

DefaultLimit == 50

MaxLimitAllowed == 1000

\* how many fields of a filter the caller sets at once
MaxFilterFields == 1

FilterKeys ==
    {"limit", "offset", "status", "sort", "order", "startTime", "endTime",
     "vaultIds", "nameContains", "descriptionContains", "color"}

\* new VaultFilter({}): nothing set
EmptyFilter == [k \in FilterKeys |-> <<>>]

FilterSpace ==
    [limit : {<<>>, <<0>>, <<1>>, <<DefaultLimit>>, <<-1>>, <<MaxLimitAllowed + 1>>},
     offset : {<<>>, <<1>>, <<-1>>},
     status : {<<>>} \cup {<<s>> : s \in EntityStatus},
     sort : {<<>>, <<"name">>},
     order : {<<>>, <<"asc">>},
     startTime : {<<>>, <<2>>},
     endTime : {<<>>, <<1>>},
     vaultIds : {<<>>, <<{1}>>},
     nameContains : {<<>>, << <<98>> >>},
     descriptionContains : {<<>>, << <<98>> >>},
     color : {<<>>, <<"#fff">>}]

\* VaultFilter.createDefault()
createDefault ==
    [EmptyFilter EXCEPT !.limit = <<DefaultLimit>>, !.offset = <<0>>,
                        !.sort = <<"created_at">>, !.order = <<"desc">>]

\* VaultFilter.createNoLimit()
createNoLimit ==
    [EmptyFilter EXCEPT !.offset = <<0>>, !.sort = <<"created_at">>,
                        !.order = <<"desc">>]

\* the filters a caller passes: every filter of FilterSpace that sets at most
\* MaxFilterFields fields, the two factory filters, a second page, and a time range
\* that ends before it starts
Filters ==
    {f \in FilterSpace :
        Cardinality({k \in FilterKeys : f[k] # <<>>}) <= MaxFilterFields}
    \cup {createDefault, createNoLimit,
          [EmptyFilter EXCEPT !.limit = <<1>>, !.offset = <<1>>],
          [EmptyFilter EXCEPT !.startTime = <<2>>, !.endTime = <<1>>]}

\* JS truthiness of an optional number / string / text
TruthyNum(o) == o # <<>> /\ o[1] # 0

TruthyStr(o) == o # <<>> /\ o[1] # ""

TruthyText(o) == o # <<>> /\ o[1] # <<>>

getLimit(f) == IF f.limit = <<>> THEN DefaultLimit ELSE f.limit[1]

getOffset(f) == IF f.offset = <<>> THEN 0 ELSE f.offset[1]

getStatus(f) == IF f.status = <<>> THEN "" ELSE f.status[1]

getSort(f) == IF f.sort = <<>> THEN "created_at" ELSE f.sort[1]

getOrder(f) == IF f.order = <<>> THEN "desc" ELSE f.order[1]

isUnlimited(f) == ~TruthyNum(f.limit)

\* validate(): TRUE when it returns, FALSE when it throws
validate(f) ==
    /\ ~(TruthyNum(f.limit) /\ (f.limit[1] < 1 \/ f.limit[1] > MaxLimitAllowed))
    /\ ~(TruthyNum(f.offset) /\ f.offset[1] < 0)
    /\ ~(TruthyStr(f.order) /\ f.order[1] \notin {"asc", "desc"})
    /\ ~(f.startTime # <<>> /\ f.endTime # <<>> /\ f.endTime[1] <= f.startTime[1])

\* a drizzle condition: eq / ne / gte / lte / inArray / like on one column
Cond(op, col, val) == [op |-> op, col |-> col, val |-> val]

\* buildBaseConditions without its default branch: deleted rows are not excluded
buildBaseConditions_noDefault(f) ==
    (IF getStatus(f) # "" THEN <<Cond("eq", "status", getStatus(f))>> ELSE <<>>)
    \o (IF f.startTime # <<>> THEN <<Cond("gte", "createdAt", f.startTime[1])>> ELSE <<>>)
    \o (IF f.endTime # <<>> THEN <<Cond("lte", "createdAt", f.endTime[1])>> ELSE <<>>)

\* BaseFilter.buildBaseConditions
buildBaseConditions(f) ==
    (IF getStatus(f) # ""
        THEN <<Cond("eq", "status", getStatus(f))>>
        ELSE <<Cond("ne", "status", "deleted")>>)
    \o (IF f.startTime # <<>> THEN <<Cond("gte", "createdAt", f.startTime[1])>> ELSE <<>>)
    \o (IF f.endTime # <<>> THEN <<Cond("lte", "createdAt", f.endTime[1])>> ELSE <<>>)

\* VaultFilter.buildConditions
buildConditions(f) ==
    buildBaseConditions(f)
    \o (IF f.vaultIds # <<>> /\ f.vaultIds[1] # {}
           THEN <<Cond("inArray", "id", f.vaultIds[1])>> ELSE <<>>)
    \o (IF TruthyText(f.nameContains)
           THEN <<Cond("like", "name", f.nameContains[1])>> ELSE <<>>)
    \o (IF TruthyText(f.descriptionContains)
           THEN <<Cond("like", "description", f.descriptionContains[1])>> ELSE <<>>)
    \o (IF TruthyStr(f.color) THEN <<Cond("eq", "color", f.color[1])>> ELSE <<>>)

----------------------------------------------------------------------------
(* The select query builder (drizzle-orm) and its execution *)

\* this.db.select().from(vaults)
SelectFrom == [where |-> <<>>, orderBy |-> <<>>, limit |-> <<>>, offset |-> <<>>]

\* query.where(and(...conds)): the builder keeps ONE where clause, so a second
\* call replaces the clause the first call set (config.where = where)
Where(q, conds) == [q EXCEPT !.where = conds]

\* applyBaseFilters(query, schema)
applyBaseFilters(f, q) ==
    LET conditions == buildBaseConditions(f)
        q1 == IF Len(conditions) > 0 THEN Where(q, conditions) ELSE q
        sortField == IF getSort(f) = "created_at" THEN "createdAt" ELSE "name"
        q2 == [q1 EXCEPT !.orderBy = <<[field |-> sortField, order |-> getOrder(f)]>>]
    IN  IF ~isUnlimited(f)
           THEN [q2 EXCEPT !.limit = <<getLimit(f)>>, !.offset = <<getOffset(f)>>]
           ELSE q2

\* text `sub` occurs in text `t` (LIKE '%sub%')
Contains(t, sub) ==
    \E i \in 0..(Len(t) - Len(sub)) : SubSeq(t, i + 1, i + Len(sub)) = sub

\* a row satisfies a condition; a comparison with SQL NULL is never true
Eval(c, r) ==
    CASE c.op = "eq" -> r[c.col] = c.val
      [] c.op = "ne" -> r[c.col] # c.val
      [] c.op = "gte" -> r[c.col] >= c.val
      [] c.op = "lte" -> r[c.col] <= c.val
      [] c.op = "inArray" -> r[c.col] \in c.val
      [] c.op = "like" -> Contains(r[c.col], c.val)

\* the rows the where clause selects
Matching(s, q) == {r \in Stored(s) : \A i \in 1..Len(q.where) : Eval(q.where[i], r)}

\* lexicographic order of two texts
RECURSIVE TextLE(_, _)
TextLE(a, b) ==
    IF a = <<>> THEN TRUE
    ELSE IF b = <<>> THEN FALSE
    ELSE IF a[1] # b[1] THEN a[1] < b[1]
    ELSE TextLE(Tail(a), Tail(b))

KeyLE(field, a, b) ==
    IF field = "createdAt" THEN a.createdAt <= b.createdAt ELSE TextLE(a.name, b.name)

\* seq respects the ORDER BY of q (rows with equal keys come in any order)
InOrder(q, seq) ==
    q.orderBy = <<>> \/
    \A i, j \in 1..Len(seq) :
        i < j => IF q.orderBy[1].order = "asc"
                    THEN KeyLE(q.orderBy[1].field, seq[i], seq[j])
                    ELSE KeyLE(q.orderBy[1].field, seq[j], seq[i])

\* OFFSET / LIMIT
Page(q, seq) ==
    IF q.limit = <<>> THEN seq
    ELSE LET from == q.offset[1] + 1
             to == IF q.offset[1] + q.limit[1] < Len(seq)
                      THEN q.offset[1] + q.limit[1] ELSE Len(seq)
         IN  IF from > to THEN <<>> ELSE SubSeq(seq, from, to)

\* every result the database may return for q
Execute(s, q) ==
    LET M == Matching(s, q)
        n == Cardinality(M)
    IN  {Page(q, seq) : seq \in {p \in [1..n -> M] :
                                    /\ \A i, j \in 1..n : i # j => p[i] # p[j]
                                    /\ InOrder(q, p)}}

----------------------------------------------------------------------------
(* RequestContext as the repository and the DTO read it *)

\* RequestContext.getTenantId(): <<tenantId>>, or <<>> when it throws
getTenantId(ctx) == IF ctx.tenantId = Null THEN <<>> ELSE <<ctx.tenantId>>

\* RequestContext.tryGetUserId(): the user id or Null
tryGetUserId(ctx) == ctx.userId

\* VaultRepositoryImpl.tryGetUserIdFromContext(): getUserId() or null when it throws
tryGetUserIdFromContext(ctx) == ctx.userId

\* VaultRepositoryImpl.getTenantCondition(), for a context that carries a tenant
getTenantCondition(ctx) == Cond("eq", "tenantId", getTenantId(ctx)[1])

\* VaultRepositoryImpl.getUserCondition(): the condition or nothing
getUserCondition(ctx) ==
    IF tryGetUserIdFromContext(ctx) = Null
       THEN <<>>
       ELSE <<Cond("eq", "createdBy", tryGetUserIdFromContext(ctx))>>

----------------------------------------------------------------------------
(* VaultRepositoryImpl.  Each operation yields the set of its possible       *)
(* outcomes [store, res, db]: the table afterwards, the settled promise, and *)
(* the statement it sent to the database ("none", "read" or "write").        *)

Outcome(s, res, db) == [store |-> s, res |-> res, db |-> db]

\* the catch block of every repository method: whatever the try block threw is
\* replaced by Err.database(...).build()
RepoCatch(r) == IF r.thrown THEN Rejected(CustomError("DATABASE_ERROR")) ELSE r

\* getTenantIdFromContext() threw Err.unauthorized(...).build() inside the try block
MissingTenant(s) ==
    Outcome(s, withErrorHandling(RepoCatch(Rejected(CustomError("UNAUTHORIZED")))), "none")

\* findById that leaves eq(vaults.tenantId, tenantId) out of its conditions
findById_noTenant(s, ctx, id) ==
    IF getTenantId(ctx) = <<>>
       THEN {MissingTenant(s)}
       ELSE LET conditions == <<Cond("eq", "id", id)>> \o getUserCondition(ctx)
            IN  {Outcome(s,
                         withErrorHandling(RepoCatch(
                             Resolved(IF rows = <<>> THEN <<>> ELSE <<rows[1]>>))),
                         "read") :
                    rows \in Execute(s, Where(SelectFrom, conditions))}

findById(s, ctx, id) ==
    IF getTenantId(ctx) = <<>>
       THEN {MissingTenant(s)}
       ELSE LET conditions == <<Cond("eq", "id", id), getTenantCondition(ctx)>>
                                  \o getUserCondition(ctx)
            IN  {Outcome(s,
                         withErrorHandling(RepoCatch(
                             Resolved(IF rows = <<>> THEN <<>> ELSE <<rows[1]>>))),
                         "read") :
                    rows \in Execute(s, Where(SelectFrom, conditions))}

findAll(s, ctx, f) ==
    IF ~validate(f)
       THEN {Outcome(s, withErrorHandling(RepoCatch(Rejected(PlainError("Error")))), "none")}
    ELSE IF getTenantId(ctx) = <<>>
       THEN {MissingTenant(s)}
    ELSE LET allConditions == buildConditions(f) \o <<getTenantCondition(ctx)>>
                                  \o getUserCondition(ctx)
             query == applyBaseFilters(f, Where(SelectFrom, allConditions))
         IN  {Outcome(s, withErrorHandling(RepoCatch(Resolved(rows))), "read") :
                 rows \in Execute(s, query)}

count(s, ctx, f) ==
    IF ~validate(f)
       THEN {Outcome(s, withErrorHandling(RepoCatch(Rejected(PlainError("Error")))), "none")}
    ELSE IF getTenantId(ctx) = <<>>
       THEN {MissingTenant(s)}
    ELSE LET allConditions == buildConditions(f) \o <<getTenantCondition(ctx)>>
                                  \o getUserCondition(ctx)
             query == Where(SelectFrom, allConditions)
         IN  {Outcome(s, withErrorHandling(RepoCatch(Resolved(Len(rows)))), "read") :
                 rows \in Execute(s, query)}

\* update whose WHERE names the id only
update_whereIdOnly(s, ctx, vault) ==
    IF getTenantId(ctx) = <<>>
       THEN {MissingTenant(s)}
    ELSE IF vault.tenantId # getTenantId(ctx)[1]
       THEN {Outcome(s, withErrorHandling(RepoCatch(Rejected(CustomError("FORBIDDEN")))),
                     "none")}
    ELSE IF IsStored(s, vault.id)
       THEN {Outcome([s EXCEPT ![vault.id] = vault],
                     withErrorHandling(RepoCatch(Resolved(<<vault>>))), "write")}
       ELSE {Outcome(s, withErrorHandling(RepoCatch(Rejected(PlainError("TypeError")))),
                     "write")}

\* UPDATE vaults SET <vault> WHERE id = vault.id AND tenant_id = tenantId RETURNING *
update(s, ctx, vault) ==
    IF getTenantId(ctx) = <<>>
       THEN {MissingTenant(s)}
    ELSE IF vault.tenantId # getTenantId(ctx)[1]
       THEN {Outcome(s, withErrorHandling(RepoCatch(Rejected(CustomError("FORBIDDEN")))),
                     "none")}
    ELSE IF IsStored(s, vault.id) /\ s[vault.id].tenantId = getTenantId(ctx)[1]
       THEN {Outcome([s EXCEPT ![vault.id] = vault],
                     withErrorHandling(RepoCatch(Resolved(<<vault>>))), "write")}
       \* no row matched: `updated` is undefined and VaultEntity.fromDB throws
       ELSE {Outcome(s, withErrorHandling(RepoCatch(Rejected(PlainError("TypeError")))),
                     "write")}

\* UPDATE vaults SET status = 'deleted' WHERE id = id AND tenant_id = tenantId
delete(s, ctx, id) ==
    IF getTenantId(ctx) = <<>>
       THEN {MissingTenant(s)}
       ELSE {Outcome([i \in DOMAIN s |->
                         IF IsStored(s, i) /\ i = id /\ s[i].tenantId = getTenantId(ctx)[1]
                            THEN [s[i] EXCEPT !.status = "deleted"]
                            ELSE s[i]],
                     withErrorHandling(RepoCatch(Resolved(<<>>))), "write")}

\* INSERT INTO vaults VALUES <vault> RETURNING *; the table has a primary key on id
\* and foreign keys user_id -> users.id, tenant_id -> tenants.id
create(s, vault) ==
    IF ~IsStored(s, vault.id)
          /\ vault.userId \in Users /\ vault.tenantId \in Tenants
       THEN {Outcome([s EXCEPT ![vault.id] = vault],
                     withErrorHandling(RepoCatch(Resolved(<<vault>>))), "write")}
       ELSE {Outcome(s, withErrorHandling(RepoCatch(Rejected(PlainError("DriverError")))),
                     "write")}

----------------------------------------------------------------------------
(* VaultRequest, VaultEntity, VaultServiceImpl and the POST /api/v1/vaults route *)

\* the JSON bodies a client posts; tenantId and createdBy are keys the client has
\* no business sending
Bodies ==
    [name : {<<97, 98>>}, description : {<<98>>}, color : {"#fff"},
     tenantId : Tenants \cup {Null}, createdBy : {Null, "user_2"}]
    \cup
    [name : {<<98, 99>>, <<>>}, description : {<<>>}, color : {Null},
     tenantId : {Null}, createdBy : {Null}]

\* createVaultHandler: new VaultRequest(body.name, body.description ?? null, ...,
\* body.color ?? null, ...)
VaultRequest(body) ==
    [name |-> body.name, description |-> body.description, color |-> body.color]

\* VaultRequest.validate(): TRUE when it returns, FALSE when it throws
validateRequest(request) == request.name # <<>>

\* generateUUIDWithPrefix(UUID_PREFIX.VAULT): an id no stored vault has
generateId(s) == Cardinality(Stored(s)) + 1

\* VaultRequest.toDomain() with VaultEntity.create(), for a context with a tenant
toDomain(request, ctx, id, time) ==
    [id |-> id,
     name |-> request.name,
     description |-> request.description,
     color |-> request.color,
     userId |-> IF tryGetUserId(ctx) = Null THEN "" ELSE tryGetUserId(ctx),
     tenantId |-> getTenantId(ctx)[1],
     status |-> "published",
     createdBy |-> tryGetUserId(ctx),
     createdAt |-> time]

\* createVault that lets a tenantId key of the body override the context's tenant
createVault_trustBody(s, ctx, body, time) ==
    LET request == VaultRequest(body)
        entity == toDomain(request, ctx, generateId(s), time)
    IN  IF ~validateRequest(request)
           THEN {Outcome(s, Rejected(CustomError("VALIDATION_ERROR")), "none")}
        ELSE IF getTenantId(ctx) = <<>>
           THEN {Outcome(s, Rejected(PlainError("NoContextError")), "none")}
        ELSE create(s, IF body.tenantId = Null THEN entity
                       ELSE [entity EXCEPT !.tenantId = body.tenantId])

\* VaultServiceImpl.createVault behind createVaultHandler
createVault(s, ctx, body, time) ==
    LET request == VaultRequest(body)
    IN  IF ~validateRequest(request)
           THEN {Outcome(s, Rejected(CustomError("VALIDATION_ERROR")), "none")}
        ELSE IF getTenantId(ctx) = <<>>
           THEN {Outcome(s, Rejected(PlainError("NoContextError")), "none")}
        ELSE create(s, toDomain(request, ctx, generateId(s), time))

\* VaultEntity.with(updates): `updates.x ?? this.x` for the fields a caller changes
with(e, updates) ==
    [e EXCEPT !.status = IF updates.status = <<>> THEN @ ELSE updates.status[1],
              !.tenantId = IF updates.tenantId = <<>> THEN @ ELSE updates.tenantId[1]]

VaultUpdates ==
    {u \in [status : {<<>>} \cup {<<x>> : x \in EntityStatus},
            tenantId : {<<>>} \cup {<<t>> : t \in Tenants}] :
        u.status = <<>> \/ u.tenantId = <<>>}

\* the entities a caller hands to update(): a stored vault with changes, or an
\* entity whose row is not in the table
UpdateEntities(s) ==
    {with(r, u) : r \in Stored(s), u \in VaultUpdates}
    \cup {toDomain(VaultRequest(CHOOSE b \in Bodies : b.name = <<98, 99>>),
                   [tenantId |-> "tenant_A", userId |-> "user_1"], i, 1) :
             i \in {j \in VaultIds : ~IsStored(s, j)}}

----------------------------------------------------------------------------
(* RequestContext: one RequestContextStore per asynchronous call chain, held  *)
(* by an AsyncLocalStorage.  A store is an object on the heap; `run` enters   *)
(* it for the call chain that calls run, and leaving fn leaves it.            *)

\* records alive at once
MaxStores == 3

\* logical requests (asynchronous call chains) in flight
MaxRequests == 2

StoreIds == 1..MaxStores

Requests == 1..MaxRequests

\* enum UserHeaders
USER_ID == "x-user-id"

USER_EMAIL == "x-user-email"

TENANT_ID == "x-tenant-id"

ContextKeys ==
    {"requestId", "requestPath", "requestMethod", "requestStartTime",
     USER_ID, USER_EMAIL, TENANT_ID}

\* JS undefined: the value of a key an object does not have
Undefined == "undefined"

\* a store object with no key (also: a heap slot that holds no store)
NoRecord == [k \in ContextKeys |-> Undefined]

\* JS truthiness of a string-valued property
Truthy(v) == v # Undefined /\ v # ""

\* what a call of an accessor does: return a value or throw an Error
Returns(v) == [val |-> v, error |-> "none", message |-> ""]

Throws(name, message) == [val |-> Undefined, error |-> name, message |-> message]

NoContextError(message) == Throws("NoContextError", message)

ContextKeyError(key) == Throws("ContextKeyError", "Context key not found")

\* asyncLocalStorage.getStore() of a call chain whose entered stores are `stack`
\* (innermost last): the innermost store, 0 for undefined
getStore(stack) == IF stack = <<>> THEN 0 ELSE stack[Len(stack)]

hasContext(stack) == getStore(stack) # 0

\* asyncLocalStorage.run(store, fn): fn's call chain sees the object o
run(h, stack, o, record) ==
    [heap |-> [h EXCEPT ![o] = record], stack |-> Append(stack, o)]

\* a get that answers undefined where there is no context
get_noContextCheck(h, stack, key) ==
    IF ~hasContext(stack) THEN Returns(Undefined)
    ELSE IF h[getStore(stack)][key] = Undefined THEN ContextKeyError(key)
    ELSE Returns(h[getStore(stack)][key])

get(h, stack, key) ==
    IF ~hasContext(stack) THEN NoContextError("No context available")
    ELSE IF h[getStore(stack)][key] = Undefined THEN ContextKeyError(key)
    ELSE Returns(h[getStore(stack)][key])

\* a set that writes the key into every store (one record shared by all requests)
set_sharedRecord(h, stack, key, value) ==
    IF ~hasContext(stack)
       THEN [heap |-> h, out |-> NoContextError("No context available")]
       ELSE [heap |-> [o \in DOMAIN h |->
                          IF h[o] = NoRecord THEN h[o] ELSE [h[o] EXCEPT ![key] = value]],
             out |-> Returns(Undefined)]

\* context[key] = value on the store of the calling chain
set(h, stack, key, value) ==
    IF ~hasContext(stack)
       THEN [heap |-> h, out |-> NoContextError("No context available")]
       ELSE [heap |-> [h EXCEPT ![getStore(stack)][key] = value],
             out |-> Returns(Undefined)]

\* asyncLocalStorage.getStore()?.[key]
tryGet(h, stack, key) ==
    IF ~hasContext(stack) THEN Returns(Undefined) ELSE Returns(h[getStore(stack)][key])

\* getUserId / getUserEmail / getTenantId: get(key), then `if (!value) throw`
getRequired(h, stack, key, message) ==
    LET r == get(h, stack, key)
    IN  IF r.error # "none" THEN r
        ELSE IF ~Truthy(r.val) THEN NoContextError(message)
        ELSE r

getUserId(h, stack) == getRequired(h, stack, USER_ID, "User ID not found in context")

getUserEmail(h, stack) ==
    getRequired(h, stack, USER_EMAIL, "User email not found in context")

getTenantIdOf(h, stack) ==
    getRequired(h, stack, TENANT_ID, "Tenant ID not found in context")

tryGetUserIdOf(h, stack) == tryGet(h, stack, USER_ID)

tryGetTenantId(h, stack) == tryGet(h, stack, TENANT_ID)

\* crypto.randomUUID() for the store object o: a value no other store has
randomUUID(o) == ToString(o)

\* the four request fields every boundary fills in
RequestFields(o, path, method) ==
    [NoRecord EXCEPT !["requestId"] = randomUUID(o),
                     !["requestPath"] = path,
                     !["requestMethod"] = method,
                     !["requestStartTime"] = "now"]

\* keys the requests write, and the values they write to them
SetKeys == {USER_ID, TENANT_ID}

SetValues(key) == IF key = USER_ID THEN {"user_2", "user_3"} ELSE {"tenant_B"}

\* keys the requests read with get / tryGet
ReadKeys == {USER_ID, USER_EMAIL, TENANT_ID, "requestId"}

\* the last call on the context: who called what, and what came of it
Obs(t, op, key, out, before, ran) ==
    [t |-> t, op |-> op, key |-> key, out |-> out, before |-> before, ran |-> ran]

NoObs == Obs(0, "none", Undefined, Returns(Undefined), 0, FALSE)

\* no request is in flight
NoRequests ==
    /\ heap = [o \in StoreIds |-> NoRecord]
    /\ als = [t \in Requests |-> <<>>]
    /\ obs = NoObs
    /\ mine = [t \in Requests |-> NoRecord]
    /\ writer = [k \in SetKeys |-> 0]

----------------------------------------------------------------------------
(* The context boundaries: MiddlewareService.handleRequest followed by        *)
(* withApiHandler / withHandler for HTTP requests, BaseAction.withContext for *)
(* server actions                                                             *)

\* supabase.auth.getUser(): no user (or an error), or the User of the session
NoUser ==
    [id |-> Undefined, email |-> Undefined,
     user_metadata |-> Undefined, app_metadata |-> Undefined]

\* user_metadata / app_metadata stand for their tenant_id property
Sessions ==
    {NoUser} \cup
    [id : {"user_1"}, email : {Undefined, "a@x.io"},
     user_metadata : {Undefined, "tenant_A"}, app_metadata : {Undefined, "tenant_B"}]

\* what userRepository.findById(user.id) does: it throws, or resolves with
\* {data, error}; data is the stored user, whose tenantId is '' when it has none
UserLookups ==
    {[threw |-> TRUE, error |-> "none", stored |-> FALSE, tenantId |-> ""],
     [threw |-> FALSE, error |-> "DATABASE_ERROR", stored |-> FALSE, tenantId |-> ""],
     [threw |-> FALSE, error |-> "none", stored |-> FALSE, tenantId |-> ""],
     [threw |-> FALSE, error |-> "none", stored |-> TRUE, tenantId |-> ""],
     [threw |-> FALSE, error |-> "none", stored |-> TRUE, tenantId |-> "tenant_A"]}

\* the outcomes of the ensureBootstrap() calls of one server action, in order; once
\* one has succeeded the container stays initialized
Bootstraps == {<<TRUE, TRUE>>, <<FALSE, TRUE>>, <<FALSE, FALSE>>}

PUBLIC_API_ROUTES == {"/api/health", "/api/auth/signup", "/api/auth/login"}

\* the requests clients send: to a public API path, a protected API path or a
\* protected page, with or without identity headers of their own making; `stage` is
\* what became of the request ("next", "401", "redirect") and `location` where a
\* redirect leads: the login page and the path it carries
ClientRequests ==
    {[path |-> p, method |-> "GET", stage |-> "sent", location |-> <<>>,
      headers |-> [k \in {USER_ID, USER_EMAIL, TENANT_ID} |->
                     CASE k = USER_ID -> u [] k = TENANT_ID -> tn [] OTHER -> Undefined]] :
        p \in {"/api/health", "/api/v1/vaults", "/dashboard"},
        u \in {Undefined, "user_2"}, tn \in {Undefined, "tenant_B"}}

\* none of the paths drawn is in PUBLIC_ROUTES or matches the STATIC or NEXT_INTERNAL
\* pattern
isPublicRoute(pathname) == pathname \in PUBLIC_API_ROUTES

\* ROUTE_PATTERNS.API.test(pathname), on the paths drawn
isApiRoute(pathname) == pathname \in PUBLIC_API_ROUTES \cup {"/api/v1/vaults"}

\* getCurrentUser: the session's user, or null when resolving it failed (its catch,
\* userError, missing configuration)
getCurrentUser(user, fault) == IF fault = "getCurrentUser" THEN NoUser ELSE user

\* the redirect to /login?redirect=<pathname> for a page, the 401 for an API path
handleUnauthenticatedRequest(request) ==
    IF ~isApiRoute(request.path)
       THEN [request EXCEPT !.stage = "redirect", !.location = <<"/login", request.path>>]
       ELSE [request EXCEPT !.stage = "401"]

\* userMetadata.tenant_id || appMetadata.tenant_id || null
extractTenantIdFromUser(user) ==
    IF Truthy(user.user_metadata) THEN user.user_metadata
    ELSE IF Truthy(user.app_metadata) THEN user.app_metadata
    ELSE Undefined

extractTenantIdFromMetadata(user) == extractTenantIdFromUser(user)

\* request.headers.set(...) for the user id, the email and, if there is one, the
\* tenant id; initializeRequestContext enters a store around `() => {}` and has left
\* it before the route handler starts
setUserContext(request, user) ==
    LET tenantId == extractTenantIdFromUser(user)
    IN  [request EXCEPT
            !.stage = "next",
            !.headers = [@ EXCEPT
                ![USER_ID] = IF Truthy(user.id) THEN user.id ELSE "",
                ![USER_EMAIL] = IF Truthy(user.email) THEN user.email ELSE "",
                ![TENANT_ID] = IF Truthy(tenantId) THEN tenantId ELSE @]]

\* the request as it reaches the route handler ("next"), or the 401 / redirect;
\* `fault` is the step that throws, if one does
handleRequest(request, session_user, fault) ==
    LET user == getCurrentUser(session_user, fault)
    IN  IF isPublicRoute(request.path) THEN [request EXCEPT !.stage = "next"]
        ELSE IF ~Truthy(user.id)
           \* catch { return NextResponse.next() }
           THEN IF fault = "handleUnauthenticatedRequest"
                   THEN [request EXCEPT !.stage = "next"]
                   ELSE handleUnauthenticatedRequest(request)
        ELSE setUserContext(request, user)

\* a header is copied into the new store if it is there and not empty
fromRequest(h, stack, o, request) ==
    LET header(k) == IF Truthy(request.headers[k]) THEN request.headers[k]
                                                   ELSE Undefined
    IN  run(h, stack, o,
            [RequestFields(o, request.path, request.method)
                EXCEPT ![USER_ID] = header(USER_ID),
                       ![USER_EMAIL] = header(USER_EMAIL),
                       ![TENANT_ID] = header(TENANT_ID)])

\* the outcome of getTenantIdFromUser: the tenant id or null (Undefined), whether it
\* threw, whether it asked the database, whether it bootstrapped ("no" when it did
\* not try)
TenantLookup(val, threw, db, booted) ==
    [val |-> val, threw |-> threw, db |-> db, booted |-> booted]

\* getTenantIdFromUser without its try / catch
getTenantIdFromUser_noCatch(user, lk, bootOk) ==
    IF Truthy(extractTenantIdFromMetadata(user))
       THEN TenantLookup(extractTenantIdFromMetadata(user), FALSE, FALSE, "no")
    ELSE IF ~bootOk THEN TenantLookup(Undefined, TRUE, FALSE, "failed")
    ELSE IF lk.threw THEN TenantLookup(Undefined, TRUE, TRUE, "ok")
    ELSE IF lk.error # "none" THEN TenantLookup(Undefined, FALSE, TRUE, "ok")
    ELSE IF lk.stored /\ lk.tenantId # ""
       THEN TenantLookup(lk.tenantId, FALSE, TRUE, "ok")
    ELSE TenantLookup(Undefined, FALSE, TRUE, "ok")

getTenantIdFromUser(user, lk, bootOk) ==
    IF Truthy(extractTenantIdFromMetadata(user))
       THEN TenantLookup(extractTenantIdFromMetadata(user), FALSE, FALSE, "no")
    \* try { await ensureBootstrap(); ... findById ... } catch { } return null
    ELSE IF ~bootOk THEN TenantLookup(Undefined, FALSE, FALSE, "failed")
    ELSE IF lk.threw THEN TenantLookup(Undefined, FALSE, TRUE, "ok")
    ELSE IF lk.error # "none" THEN TenantLookup(Undefined, FALSE, TRUE, "ok")
    ELSE IF lk.stored /\ lk.tenantId # ""
       THEN TenantLookup(lk.tenantId, FALSE, TRUE, "ok")
    ELSE TenantLookup(Undefined, FALSE, TRUE, "ok")

\* what BaseAction.withContext comes to: the heap and the stores of the chain while
\* the handler runs, or the failure that kept the handler from running
Entered(r, out) == [heap |-> r.heap, stack |-> r.stack, out |-> out]

withContext(h, stack, o, user, lk, boots) ==
    LET here == [heap |-> h, stack |-> stack]
        tl == getTenantIdFromUser(user, lk, boots[1])
        \* `await ensureBootstrap()` in front of the handler
        ensured == CASE ~Truthy(user.id) \/ hasContext(stack) -> boots[1]
                     [] tl.booted = "no" -> boots[1]
                     [] tl.booted = "ok" -> TRUE
                     [] OTHER -> boots[2]
        failed == Entered(here, Throws("Error", "bootstrap failed"))
    IN  IF hasContext(stack)
           THEN IF ensured THEN Entered(here, Returns(Undefined)) ELSE failed
        ELSE IF ~Truthy(user.id)
           THEN IF ensured
                   THEN Entered(run(h, stack, o,
                                    RequestFields(o, "/server-action", "SERVER_ACTION")),
                                Returns(Undefined))
                   ELSE failed
        ELSE IF tl.threw THEN Entered(here, Throws("Error", "tenant lookup failed"))
        ELSE IF ensured
           THEN Entered(run(h, stack, o,
                            [RequestFields(o, "/server-action", "SERVER_ACTION")
                                EXCEPT ![USER_ID] = user.id,
                                       ![USER_EMAIL] = IF Truthy(user.email)
                                                          THEN user.email ELSE "",
                                       ![TENANT_ID] = tl.val]),
                        Returns(Undefined))
        ELSE failed

\* no session, no request
NoTraffic ==
    /\ session = NoUser
    /\ lookup = [threw |-> FALSE, error |-> "none", stored |-> FALSE, tenantId |-> ""]
    /\ req = [path |-> "/api/health", method |-> "GET", stage |-> "sent",
              location |-> <<>>,
              headers |-> [k \in {USER_ID, USER_EMAIL, TENANT_ID} |-> Undefined]]

----------------------------------------------------------------------------
(* Error responses: what the outermost route wrappers send for an error a     *)
(* handler threw.  withErrorHandler and withApiErrorHandler answer through    *)
(* handleError of the error-handler module, MiddlewareService.withHandler and *)
(* withApiHandler through MiddlewareService.handleError.                      *)
(*                                                                            *)
(* A details object is the sequence of its entries; an entry has a key (its   *)
(* characters), a kind and, by kind, a string value, the entries of an object *)
(* value or the elements of an array value (elements have the empty key).     *)

\* how deep the offending key lies below the details object
MaxDepth == 2

Entry(key, kind, val, kids) == [key |-> key, kind |-> kind, val |-> val, kids |-> kids]

\* String.prototype.toLowerCase on ASCII letters
toLowerCase(t) == [i \in 1..Len(t) |-> IF t[i] \in 65..90 THEN t[i] + 32 ELSE t[i]]

\* String.prototype.includes
includes(t, sub) == Contains(t, sub)

sensitiveKeys ==
    \* password
    {<<112, 97, 115, 115, 119, 111, 114, 100>>,
    \* token
     <<116, 111, 107, 101, 110>>,
    \* secret
     <<115, 101, 99, 114, 101, 116>>,
    \* apiKey
     <<97, 112, 105, 75, 101, 121>>,
    \* api_key
     <<97, 112, 105, 95, 107, 101, 121>>,
    \* authorization
     <<97, 117, 116, 104, 111, 114, 105, 122, 97, 116, 105, 111, 110>>,
    \* cookie
     <<99, 111, 111, 107, 105, 101>>,
    \* session
     <<115, 101, 115, 115, 105, 111, 110>>,
    \* ssn
     <<115, 115, 110>>,
    \* creditCard
     <<99, 114, 101, 100, 105, 116, 67, 97, 114, 100>>,
    \* privateKey
     <<112, 114, 105, 118, 97, 116, 101, 75, 101, 121>>,
    \* private_key
     <<112, 114, 105, 118, 97, 116, 101, 95, 107, 101, 121>>,
    \* connectionString
     <<99, 111, 110, 110, 101, 99, 116, 105, 111, 110, 83, 116, 114, 105, 110, 103>>,
    \* connection_string
     <<99, 111, 110, 110, 101, 99, 116, 105, 111, 110, 95, 115, 116, 114, 105, 110, 103>>}

REDACTED == "[REDACTED]"

RECURSIVE sanitizeErrorDetails(_)
sanitizeErrorDetails(details) ==
    [i \in 1..Len(details) |->
        LET e == details[i]
            lowerKey == toLowerCase(e.key)
        IN  IF \E sensitive \in sensitiveKeys : includes(lowerKey, sensitive)
               THEN Entry(e.key, "string", REDACTED, <<>>)
            \* value && typeof value === 'object' && !Array.isArray(value)
            ELSE IF e.kind = "object"
               THEN Entry(e.key, "object", e.val, sanitizeErrorDetails(e.kids))
            ELSE e]

\* the characters of a string (their codes)
chars(s) ==
    CASE s = "INTERNAL_ERROR" ->
              <<73, 78, 84, 69, 82, 78, 65, 76, 95, 69, 82, 82, 79, 82>>
      [] s = "VALIDATION_ERROR" ->
              <<86, 65, 76, 73, 68, 65, 84, 73, 79, 78, 95, 69, 82, 82, 79, 82>>
      [] s = "NOT_FOUND" ->
              <<78, 79, 84, 95, 70, 79, 85, 78, 68>>
      [] s = "UNAUTHORIZED" ->
              <<85, 78, 65, 85, 84, 72, 79, 82, 73, 90, 69, 68>>
      [] s = "FORBIDDEN" ->
              <<70, 79, 82, 66, 73, 68, 68, 69, 78>>
      [] s = "CONFLICT" ->
              <<67, 79, 78, 70, 76, 73, 67, 84>>
      [] s = "BAD_REQUEST" ->
              <<66, 65, 68, 95, 82, 69, 81, 85, 69, 83, 84>>
      [] s = "DATABASE_ERROR" ->
              <<68, 65, 84, 65, 66, 65, 83, 69, 95, 69, 82, 82, 79, 82>>
      [] s = "DATABASE_CONNECTION_ERROR" ->
              <<68, 65, 84, 65, 66, 65, 83, 69, 95, 67, 79, 78, 78, 69, 67, 84, 73, 79, 78, 95, 69, 82, 82, 79, 82>>
      [] s = "DATABASE_QUERY_ERROR" ->
              <<68, 65, 84, 65, 66, 65, 83, 69, 95, 81, 85, 69, 82, 89, 95, 69, 82, 82, 79, 82>>
      [] s = "DATABASE_CONSTRAINT_ERROR" ->
              <<68, 65, 84, 65, 66, 65, 83, 69, 95, 67, 79, 78, 83, 84, 82, 65, 73, 78, 84, 95, 69, 82, 82, 79, 82>>
      [] s = "USER_NOT_FOUND" ->
              <<85, 83, 69, 82, 95, 78, 79, 84, 95, 70, 79, 85, 78, 68>>
      [] s = "USER_ALREADY_EXISTS" ->
              <<85, 83, 69, 82, 95, 65, 76, 82, 69, 65, 68, 89, 95, 69, 88, 73, 83, 84, 83>>
      [] s = "USER_INVALID_CREDENTIALS" ->
              <<85, 83, 69, 82, 95, 73, 78, 86, 65, 76, 73, 68, 95, 67, 82, 69, 68, 69, 78, 84, 73, 65, 76, 83>>
      [] s = "USER_ACCOUNT_DISABLED" ->
              <<85, 83, 69, 82, 95, 65, 67, 67, 79, 85, 78, 84, 95, 68, 73, 83, 65, 66, 76, 69, 68>>
      [] s = "TENANT_NOT_FOUND" ->
              <<84, 69, 78, 65, 78, 84, 95, 78, 79, 84, 95, 70, 79, 85, 78, 68>>
      [] s = "TENANT_ALREADY_EXISTS" ->
              <<84, 69, 78, 65, 78, 84, 95, 65, 76, 82, 69, 65, 68, 89, 95, 69, 88, 73, 83, 84, 83>>
      [] s = "TENANT_ACCESS_DENIED" ->
              <<84, 69, 78, 65, 78, 84, 95, 65, 67, 67, 69, 83, 83, 95, 68, 69, 78, 73, 69, 68>>
      [] s = "TOKEN_EXPIRED" ->
              <<84, 79, 75, 69, 78, 95, 69, 88, 80, 73, 82, 69, 68>>
      [] s = "TOKEN_INVALID" ->
              <<84, 79, 75, 69, 78, 95, 73, 78, 86, 65, 76, 73, 68>>
      [] s = "INSUFFICIENT_PERMISSIONS" ->
              <<73, 78, 83, 85, 70, 70, 73, 67, 73, 69, 78, 84, 95, 80, 69, 82, 77, 73, 83, 83, 73, 79, 78, 83>>
      [] s = "VALIDATION" ->
              <<86, 65, 76, 73, 68, 65, 84, 73, 79, 78>>
      [] s = "TOKEN" ->
              <<84, 79, 75, 69, 78>>
      [] s = "PERMISSION" ->
              <<80, 69, 82, 77, 73, 83, 83, 73, 79, 78>>
      [] s = "DATABASE" ->
              <<68, 65, 84, 65, 66, 65, 83, 69>>
      [] s = "RATE_LIMIT" ->
              <<82, 65, 84, 69, 95, 76, 73, 77, 73, 84>>
      [] s = "Internal server error" ->
              <<73, 110, 116, 101, 114, 110, 97, 108, 32, 115, 101, 114, 118, 101, 114, 32, 101, 114, 114, 111, 114>>
      [] s = "Invalid vault state" ->
              <<73, 110, 118, 97, 108, 105, 100, 32, 118, 97, 117, 108, 116, 32, 115, 116, 97, 116, 101>>
      [] s = "Vault 'v1' not found" ->
              <<86, 97, 117, 108, 116, 32, 39, 118, 49, 39, 32, 110, 111, 116, 32, 102, 111, 117, 110, 100>>
      [] s = "Database connection lost" ->
              <<68, 97, 116, 97, 98, 97, 115, 101, 32, 99, 111, 110, 110, 101, 99, 116, 105, 111, 110, 32, 108, 111, 115, 116>>
      [] s = "Too many requests" ->
              <<84, 111, 111, 32, 109, 97, 110, 121, 32, 114, 101, 113, 117, 101, 115, 116, 115>>
      [] s = "required" ->
              <<114, 101, 113, 117, 105, 114, 101, 100>>
      [] s = "invalid" ->
              <<105, 110, 118, 97, 108, 105, 100>>
      [] s = "validation" ->
              <<118, 97, 108, 105, 100, 97, 116, 105, 111, 110>>
      [] s = "format" ->
              <<102, 111, 114, 109, 97, 116>>
      [] s = "must be" ->
              <<109, 117, 115, 116, 32, 98, 101>>
      [] s = "not found" ->
              <<110, 111, 116, 32, 102, 111, 117, 110, 100>>
      [] s = "does not exist" ->
              <<100, 111, 101, 115, 32, 110, 111, 116, 32, 101, 120, 105, 115, 116>>
      [] s = "not exist" ->
              <<110, 111, 116, 32, 101, 120, 105, 115, 116>>
      [] s = "unauthorized" ->
              <<117, 110, 97, 117, 116, 104, 111, 114, 105, 122, 101, 100>>
      [] s = "authentication" ->
              <<97, 117, 116, 104, 101, 110, 116, 105, 99, 97, 116, 105, 111, 110>>
      [] s = "login" ->
              <<108, 111, 103, 105, 110>>
      [] s = "token" ->
              <<116, 111, 107, 101, 110>>
      [] s = "forbidden" ->
              <<102, 111, 114, 98, 105, 100, 100, 101, 110>>
      [] s = "permission" ->
              <<112, 101, 114, 109, 105, 115, 115, 105, 111, 110>>
      [] s = "access denied" ->
              <<97, 99, 99, 101, 115, 115, 32, 100, 101, 110, 105, 101, 100>>
      [] s = "already exists" ->
              <<97, 108, 114, 101, 97, 100, 121, 32, 101, 120, 105, 115, 116, 115>>
      [] s = "duplicate" ->
              <<100, 117, 112, 108, 105, 99, 97, 116, 101>>
      [] s = "conflict" ->
              <<99, 111, 110, 102, 108, 105, 99, 116>>
      [] s = "database" ->
              <<100, 97, 116, 97, 98, 97, 115, 101>>
      [] s = "connection" ->
              <<99, 111, 110, 110, 101, 99, 116, 105, 111, 110>>
      [] s = "query" ->
              <<113, 117, 101, 114, 121>>
      [] s = "constraint" ->
              <<99, 111, 110, 115, 116, 114, 97, 105, 110, 116>>
      [] s = "rate limit" ->
              <<114, 97, 116, 101, 32, 108, 105, 109, 105, 116>>
      [] s = "too many requests" ->
              <<116, 111, 111, 32, 109, 97, 110, 121, 32, 114, 101, 113, 117, 101, 115, 116, 115>>
      [] s = "throttle" ->
              <<116, 104, 114, 111, 116, 116, 108, 101>>
      [] s = "field" ->
              <<102, 105, 101, 108, 100>>
      [] s = "resource" ->
              <<114, 101, 115, 111, 117, 114, 99, 101>>
      [] s = "identifier" ->
              <<105, 100, 101, 110, 116, 105, 102, 105, 101, 114>>

\* the kind createAppropriateErrorResponse answers by: by the error's code, then by
\* its message, then by the keys of its details
detectErrorType(e) ==
    LET code == chars(e.code)
        lowerMessage == toLowerCase(chars(e.displayMessage))
        msg(pattern) == includes(lowerMessage, chars(pattern))
        has(name) == \E i \in 1..Len(e.details) :
                        /\ e.details[i].key = chars(name)
                        /\ (e.details[i].kind = "string" => Truthy(e.details[i].val))
    IN  CASE includes(code, chars("VALIDATION")) \/ includes(code, chars("VALIDATION_ERROR")) -> "validation"
          [] includes(code, chars("NOT_FOUND")) -> "not_found"
          [] includes(code, chars("UNAUTHORIZED")) \/ includes(code, chars("TOKEN")) -> "unauthorized"
          [] includes(code, chars("FORBIDDEN")) \/ includes(code, chars("PERMISSION")) -> "forbidden"
          [] includes(code, chars("CONFLICT")) -> "conflict"
          [] includes(code, chars("DATABASE")) -> "database"
          [] includes(code, chars("RATE_LIMIT")) -> "rate_limit"
          [] Truthy(e.displayMessage)
             /\ (msg("required") \/ msg("invalid") \/ msg("validation") \/ msg("format")
                 \/ msg("must be")) -> "validation"
          [] Truthy(e.displayMessage)
             /\ (msg("not found") \/ msg("does not exist") \/ msg("not exist")) -> "not_found"
          [] Truthy(e.displayMessage)
             /\ (msg("unauthorized") \/ msg("authentication") \/ msg("login")
                 \/ msg("token")) -> "unauthorized"
          [] Truthy(e.displayMessage)
             /\ (msg("forbidden") \/ msg("permission") \/ msg("access denied")) -> "forbidden"
          [] Truthy(e.displayMessage)
             /\ (msg("already exists") \/ msg("duplicate") \/ msg("conflict")) -> "conflict"
          [] Truthy(e.displayMessage)
             /\ (msg("database") \/ msg("connection") \/ msg("query")
                 \/ msg("constraint")) -> "database"
          [] Truthy(e.displayMessage)
             /\ (msg("rate limit") \/ msg("too many requests") \/ msg("throttle")) -> "rate_limit"
          [] has("field") \/ has("validation") -> "validation"
          [] has("resource") \/ has("identifier") -> "not_found"
          [] has("database") \/ has("query") -> "database"
          [] OTHER -> "internal"

\* the `error` object of an ErrorResponse, without its timestamp
ErrorBody(message, code, statusCode, internal_error, details) ==
    [message |-> message, code |-> code, statusCode |-> statusCode,
     internal_error |-> internal_error, details |-> details]

createAppropriateErrorResponse(e, isProduction) ==
    LET errorType == detectErrorType(e)
        internal == IF isProduction THEN Undefined ELSE e.internalError
        sanitized == sanitizeErrorDetails(e.details)
        \* displayMessage || '<default>'
        message(default) == IF Truthy(e.displayMessage) THEN e.displayMessage ELSE default
    IN  CASE errorType = "validation" ->
                ErrorBody(message("Validation failed. Please check your input."),
                          e.code, 400, internal, sanitized)
          [] errorType = "not_found" ->
                ErrorBody(message("The requested resource was not found."),
                          e.code, 404, internal, sanitized)
          [] errorType = "unauthorized" ->
                ErrorBody(message("Authentication required. Please log in."),
                          e.code, 401, internal, sanitized)
          [] errorType = "forbidden" ->
                ErrorBody(message("You do not have permission to access this resource."),
                          e.code, 403, internal, sanitized)
          [] errorType = "conflict" ->
                ErrorBody(message("The request conflicts with existing data."),
                          e.code, 409, internal, sanitized)
          [] errorType = "database" ->
                ErrorBody(IF isProduction
                             THEN "An error occurred while processing your request."
                             ELSE "Database operation failed",
                          e.code, 500,
                          IF isProduction THEN Undefined
                          ELSE IF Truthy(e.internalError) THEN e.internalError
                          ELSE "Database error occurred",
                          IF isProduction THEN <<>> ELSE sanitized)
          [] errorType = "rate_limit" ->
                ErrorBody(message("Too many requests. Please try again later."),
                          e.code, 429, internal, sanitized)
          [] OTHER ->
                ErrorBody(IF isProduction
                             THEN "An unexpected error occurred. Please try again later."
                             ELSE message("An unexpected error occurred"),
                          e.code, STATUS_CODES[e.code], internal,
                          IF isProduction THEN <<>> ELSE sanitized)

\* a response: who sent it, its HTTP status, the error object of its body, and whether
\* the wrapper wrote the error to the log
Response(wrapper, status, body, logged) ==
    [wrapper |-> wrapper, status |-> status, body |-> body, logged |-> logged]

\* handleError of the error-handler module: logError(appError, ...) is unconditional
handleError(wrapper, e, isProduction) ==
    LET response == createAppropriateErrorResponse(e, isProduction)
    IN  Response(wrapper, response.statusCode, response, TRUE)

\* toErrorResponse: CustomError.toResponse()
toErrorResponse(e) ==
    ErrorBody(e.displayMessage, e.code, STATUS_CODES[e.code], e.internalError, e.details)

\* getStatusCode
getStatusCode(e) == STATUS_CODES[e.code]

\* MiddlewareService.handleError
MiddlewareService_handleError(wrapper, e) ==
    LET isValidationError == e.code = "VALIDATION_ERROR"
        isNotFoundError == e.code = "NOT_FOUND"
    IN  Response(wrapper, getStatusCode(e), toErrorResponse(e),
                 ~isValidationError /\ ~isNotFoundError)

\* the value a sensitive field holds
Secret == "s3cr3t"

\* keys of the entries the handlers put into details
DetailKeys ==
    \* password
    {<<112, 97, 115, 115, 119, 111, 114, 100>>,
    \* userPassword
     <<117, 115, 101, 114, 80, 97, 115, 115, 119, 111, 114, 100>>,
    \* api_key
     <<97, 112, 105, 95, 107, 101, 121>>,
    \* apiKey
     <<97, 112, 105, 75, 101, 121>>,
    \* API_KEY
     <<65, 80, 73, 95, 75, 69, 89>>,
    \* creditCard
     <<99, 114, 101, 100, 105, 116, 67, 97, 114, 100>>,
    \* privateKey
     <<112, 114, 105, 118, 97, 116, 101, 75, 101, 121>>,
    \* connectionString
     <<99, 111, 110, 110, 101, 99, 116, 105, 111, 110, 83, 116, 114, 105, 110, 103>>,
    \* Authorization
     <<65, 117, 116, 104, 111, 114, 105, 122, 97, 116, 105, 111, 110>>,
    \* email
     <<101, 109, 97, 105, 108>>,
    \* field
     <<102, 105, 101, 108, 100>>}

\* the field named by a key of the sensitive list, compared without regard to case
IsSensitive(key) ==
    \E name \in sensitiveKeys : includes(toLowerCase(key), toLowerCase(name))

Leaf(key) == Entry(key, "string", IF IsSensitive(key) THEN Secret ELSE "public", <<>>)

\* the entry e inside d nested objects
RECURSIVE Nest(_, _)
Nest(e, d) ==
    IF d = 0 THEN <<e>>
    ELSE <<Entry(<<109, 101, 116, 97>>, "object", "", Nest(e, d - 1))>>

\* the entry e inside d nested objects that are an element of an array
InArray(e, d) ==
    <<Entry(<<105, 116, 101, 109, 115>>, "array", "", <<Entry(<<>>, "object", "", Nest(e, d))>>)>>

DetailsInputs ==
    {<<>>}
    \cup {Nest(Leaf(k), d) : k \in DetailKeys, d \in 0..MaxDepth}
    \cup {InArray(Leaf(k), d) : k \in DetailKeys, d \in 0..(MaxDepth - 1)}

\* the messages handlers give their errors
DisplayMessages ==
    {"Internal server error", "Invalid vault state", "Vault 'v1' not found",
     "Database connection lost", "Too many requests"}

\* the errors handlers throw (Err.*(...).withMessage(...).withDetails(...).build()),
\* and NODE_ENV === 'production'
Errors ==
    [code : DOMAIN STATUS_CODES, displayMessage : DisplayMessages,
     internalError : {Undefined, "pg: relation users"},
     details : DetailsInputs, production : BOOLEAN]

NoResponse == Response("none", 0, ErrorBody("", "", 0, Undefined, <<>>), FALSE)

\* nothing thrown, nothing sent
NoThrow ==
    /\ err = [code |-> "INTERNAL_ERROR", displayMessage |-> "Internal server error",
              internalError |-> Undefined,
              details |-> <<>>, production |-> FALSE]
    /\ resp = NoResponse

----------------------------------------------------------------------------
(* VaultServiceImpl.updateVault: it reads the vault twice, builds the entity  *)
(* to write from the second read, and writes it; other calls run between its  *)
(* awaits.                                                                    *)

\* VaultUpdateRequest: name, description, iconUrl, color, metadata; no status.  The
\* color stands for them (Null: the field is not given)
VaultUpdateRequests == [color : {Null, "#000"}]

\* getVaultById: findById, `if (error) throw error`
getVaultById(s, ctx, id) == findById(s, ctx, id)

\* vaultEntity.with({...request, updatedAt, updatedBy}): every field the request does
\* not give, the status among them, is the one that was read
updatedVault(vaultEntity, request) ==
    [with(vaultEntity, [status |-> <<>>, tenantId |-> <<>>])
        EXCEPT !.color = IF request.color = Null THEN @ ELSE request.color]

\* no updateVault call in flight
NoCall ==
    [phase |-> "idle", ctx |-> [tenantId |-> Null, userId |-> Null], id |-> 0,
     request |-> [color |-> Null], entity |-> NoRow, deleted |-> FALSE]

NoUpdate == pending = NoCall

\* tables with up to two vaults, as createVault leaves them
SeedStores ==
    LET body == CHOOSE b \in Bodies : b.name = <<98, 99>>
        empty == [i \in VaultIds |-> NoRow]
        one == {o.store : o \in UNION {createVault(empty, ctx, body, 1) : ctx \in Contexts}}
    IN  one \cup {o.store : o \in UNION {createVault(s, ctx, body, 2) :
                                            s \in one, ctx \in Contexts}}

----------------------------------------------------------------------------
(* The DI module: _bootstrapPromise, _initialized, bootstrap, ensureBootstrap *)
(* A promise is "resolved" or "rejected" once settled; the promise that       *)
(* ensureBootstrap chains on bootstrap()'s (.then(...).catch(...)) is         *)
(* "resolving" or "rejecting" until its handler has run.                      *)

\* promises created in one process
MaxPromises == 4

\* concurrent callers
MaxCallers == 2

PromiseIds == 1..MaxPromises

Callers == 1..MaxCallers

\* the module as loaded: _bootstrapPromise = null (0), _initialized = false, nothing
\* registered
Loaded ==
    [bootstrapPromise |-> 0, initialized |-> FALSE, registered |-> 0,
     promises |-> [p \in PromiseIds |-> "none"]]

FreePromises(d) == {p \in PromiseIds : d.promises[p] = "none"}

newPromise(d) == CHOOSE p \in FreePromises(d) : \A q \in FreePromises(d) : p <= q

\* bootstrap(): the promise it returns.  The async function body has no await: the
\* registration runs at once (ok: it does not throw); on failure the catch block sets
\* _bootstrapPromise = null and rethrows, and then the promise of the body, rejected,
\* is assigned to _bootstrapPromise
bootstrap(d, ok) ==
    IF d.bootstrapPromise # 0
       THEN [di |-> d, promise |-> d.bootstrapPromise]
       ELSE LET p == newPromise(d)
            IN  [di |-> [d EXCEPT !.promises[p] = IF ok THEN "resolved" ELSE "rejected",
                                  !.registered = IF ok THEN @ + 1 ELSE @,
                                  !.bootstrapPromise = p],
                 promise |-> p]

\* ensureBootstrap without `await _bootstrapPromise`
ensureBootstrap_noAwait(d, ok) ==
    IF d.initialized THEN [di |-> d, promise |-> 0]
    ELSE IF d.bootstrapPromise = 0
       THEN LET b == bootstrap(d, ok)
                p == newPromise(b.di)
            IN  [di |-> [b.di EXCEPT
                            !.promises[p] = IF b.di.promises[b.promise] = "resolved"
                                               THEN "resolving" ELSE "rejecting",
                            !.bootstrapPromise = p],
                 promise |-> 0]
    ELSE [di |-> d, promise |-> 0]

\* ensureBootstrap(), up to its await: the promise the caller awaits, 0 when it
\* returns at once
ensureBootstrap(d, ok) ==
    IF d.initialized THEN [di |-> d, promise |-> 0]
    ELSE IF d.bootstrapPromise = 0
       THEN LET b == bootstrap(d, ok)
                p == newPromise(b.di)
            IN  [di |-> [b.di EXCEPT
                            !.promises[p] = IF b.di.promises[b.promise] = "resolved"
                                               THEN "resolving" ELSE "rejecting",
                            !.bootstrapPromise = p],
                 promise |-> p]
    ELSE [di |-> d, promise |-> d.bootstrapPromise]

\* the handler of the chained promise runs: .then sets _initialized = true,
\* .catch sets _bootstrapPromise = null and rethrows
settle(d, p) ==
    IF d.promises[p] = "resolving"
       THEN [d EXCEPT !.promises[p] = "resolved", !.initialized = TRUE]
       ELSE [d EXCEPT !.promises[p] = "rejected", !.bootstrapPromise = 0]

\* a caller: where it is, which function it called, the promise it awaits, and
\* whether that promise had been rejected before the call
NoCaller == [pc |-> "idle", op |-> "none", on |-> 0, stale |-> FALSE]

Caller(d, op, promise) ==
    [pc |-> IF promise = 0 THEN "returned" ELSE "awaiting", op |-> op, on |-> promise,
     stale |-> d.bootstrapPromise # 0 /\ d.promises[d.bootstrapPromise] = "rejected"]

NoBootstrap ==
    /\ di = Loaded
    /\ callers = [c \in Callers |-> NoCaller]

----------------------------------------------------------------------------
(* The state machine: one repository/service call at a time, its request and *)
(* outcome recorded in `last` until the caller has taken the result          *)

Idle == [op |-> "none"]

Call(op, ctx, arg, o) ==
    /\ store' = o.store
    /\ last' = [op |-> op, ctx |-> ctx, arg |-> arg, res |-> o.res, db |-> o.db,
                before |-> store]
    /\ UNCHANGED <<ctxVars, bndVars, errVars, svcVars>>

Init ==
    /\ store = [i \in VaultIds |-> NoRow]
    /\ now = 1
    /\ last = Idle
    /\ NoRequests
    /\ NoTraffic
    /\ NoThrow
    /\ NoUpdate
    /\ NoBootstrap

FindById ==
    /\ last.op = "none"
    /\ \E ctx \in Contexts, id \in QueryIds :
          \E o \in findById(store, ctx, id) : Call("findById", ctx, id, o)
    /\ UNCHANGED now

FindAll ==
    /\ last.op = "none"
    /\ \E ctx \in Contexts, f \in Filters :
          \E o \in findAll(store, ctx, f) : Call("findAll", ctx, f, o)
    /\ UNCHANGED now

Count ==
    /\ last.op = "none"
    /\ \E ctx \in Contexts, f \in Filters :
          \E o \in count(store, ctx, f) : Call("count", ctx, f, o)
    /\ UNCHANGED now

CreateVault ==
    /\ last.op = "none"
    /\ generateId(store) \in VaultIds
    /\ \E ctx \in Contexts, body \in Bodies :
          \E o \in createVault(store, ctx, body, now) :
             /\ Call("createVault", ctx, body, o)
             /\ now' = IF o.store # store THEN now + 1 ELSE now

Update ==
    /\ last.op = "none"
    /\ \E ctx \in Contexts, vault \in UpdateEntities(store) :
          \E o \in update(store, ctx, vault) : Call("update", ctx, vault, o)
    /\ UNCHANGED now

Delete ==
    /\ last.op = "none"
    /\ \E ctx \in Contexts, id \in QueryIds :
          \E o \in delete(store, ctx, id) : Call("delete", ctx, id, o)
    /\ UNCHANGED now

\* the caller takes the result; the next call can start
Return ==
    /\ last.op # "none"
    /\ last' = Idle
    /\ UNCHANGED <<store, now>>
    /\ UNCHANGED <<ctxVars, bndVars, errVars, svcVars>>

Next ==
    \/ FindById
    \/ FindAll
    \/ Count
    \/ CreateVault
    \/ Update
    \/ Delete
    \/ Return

Spec == Init /\ [][Next]_vars

----------------------------------------------------------------------------
(* Requests on the context store: each request enters its own store with     *)
(* run and then reads and writes keys; calls of different requests interleave *)
(* at every await                                                             *)

\* the stores requests start with (as fromRequest and BaseAction build them)
InitialRecords(o) ==
    {[RequestFields(o, "/api/v1/vaults", "GET")
         EXCEPT ![USER_ID] = u, ![USER_EMAIL] = e, ![TENANT_ID] = tn] :
        u \in {Undefined, "user_1"}, e \in {Undefined, ""},
        tn \in {Undefined, "tenant_A"}}

IsFree(h, o) == h[o] = NoRecord

\* `{ ... }`: a new store object
newStore(h) == CHOOSE o \in StoreIds : IsFree(h, o) /\ \A p \in 1..(o - 1) : ~IsFree(h, p)

InitCtx ==
    /\ NoRequests
    /\ NoTraffic
    /\ NoThrow
    /\ store = [i \in VaultIds |-> NoRow]
    /\ now = 1
    /\ last = Idle
    /\ NoUpdate
    /\ NoBootstrap

Run(t) ==
    /\ als[t] = <<>>
    /\ \E o \in StoreIds : IsFree(heap, o)
    /\ \E record \in InitialRecords(newStore(heap)) :
          LET r == run(heap, als[t], newStore(heap), record)
          IN  /\ heap' = r.heap
              /\ als' = [als EXCEPT ![t] = r.stack]
              /\ mine' = [mine EXCEPT ![t] = record]
    /\ obs' = Obs(t, "run", Undefined, Returns(Undefined), 0, TRUE)
    /\ UNCHANGED <<writer, repoVars, bndVars, errVars, svcVars>>

Set(t) ==
    \E key \in SetKeys : \E value \in SetValues(key) :
       LET r == set(heap, als[t], key, value)
       IN  /\ heap' = r.heap
           /\ obs' = Obs(t, "set", key, r.out, getStore(als[t]), FALSE)
           /\ mine' = IF r.out.error = "none" THEN [mine EXCEPT ![t][key] = value]
                                               ELSE mine
           /\ writer' = IF r.out.error = "none" THEN [writer EXCEPT ![key] = t]
                                                 ELSE writer
           /\ UNCHANGED <<als, repoVars, bndVars, errVars, svcVars>>

\* a call that only reads
Read(t, op, key, out) ==
    /\ obs' = Obs(t, op, key, out, getStore(als[t]), FALSE)
    /\ UNCHANGED <<heap, als, mine, writer, repoVars, bndVars, errVars, svcVars>>

Get(t) == \E key \in ReadKeys : Read(t, "get", key, get(heap, als[t], key))

TryGet(t) == \E key \in ReadKeys : Read(t, "tryGet", key, tryGet(heap, als[t], key))

GetUserId(t) == Read(t, "getUserId", USER_ID, getUserId(heap, als[t]))

GetUserEmail(t) == Read(t, "getUserEmail", USER_EMAIL, getUserEmail(heap, als[t]))

GetTenantId(t) == Read(t, "getTenantId", TENANT_ID, getTenantIdOf(heap, als[t]))

TryGetUserId(t) == Read(t, "tryGetUserId", USER_ID, tryGetUserIdOf(heap, als[t]))

TryGetTenantId(t) == Read(t, "tryGetTenantId", TENANT_ID, tryGetTenantId(heap, als[t]))

\* fn returns and its promise settles: the chain leaves the store it entered
Exit(t) ==
    /\ als[t] # <<>>
    /\ heap' = [heap EXCEPT ![getStore(als[t])] = NoRecord]
    /\ als' = [als EXCEPT ![t] = SubSeq(als[t], 1, Len(als[t]) - 1)]
    /\ mine' = [mine EXCEPT ![t] = NoRecord]
    /\ obs' = Obs(t, "exit", Undefined, Returns(Undefined), getStore(als[t]), FALSE)
    /\ UNCHANGED <<writer, repoVars, bndVars, errVars, svcVars>>

NextCtx ==
    \E t \in Requests :
       \/ Run(t)
       \/ Set(t)
       \/ Get(t)
       \/ TryGet(t)
       \/ GetUserId(t)
       \/ GetUserEmail(t)
       \/ GetTenantId(t)
       \/ TryGetUserId(t)
       \/ TryGetTenantId(t)
       \/ Exit(t)

SpecCtx == InitCtx /\ [][NextCtx]_vars

----------------------------------------------------------------------------
(* Requests through the boundaries: a client request passes the middleware    *)
(* and reaches a wrapped route handler; a server action starts in             *)
(* BaseAction.withContext; either may be called from inside the other         *)

InitBnd ==
    /\ NoRequests
    /\ session \in Sessions
    /\ lookup \in UserLookups
    /\ req \in ClientRequests
    /\ NoThrow
    /\ store = [i \in VaultIds |-> NoRow]
    /\ now = 1
    /\ last = Idle
    /\ NoUpdate
    /\ NoBootstrap

Middleware ==
    /\ req.stage = "sent"
    /\ \E fault \in {"none", "getCurrentUser", "handleUnauthenticatedRequest"} :
          /\ req' = handleRequest(req, session, fault)
          /\ obs' = Obs(0, "handleRequest", fault, Returns(Undefined), 0, FALSE)
    /\ UNCHANGED <<heap, als, mine, writer, session, lookup, repoVars, errVars, svcVars>>

\* MiddlewareService.withApiHandler / withHandler: fromRequest, then the handler
WithApiHandler(t) ==
    /\ req.stage = "next"
    /\ \E o \in StoreIds : IsFree(heap, o)
    /\ \E op \in {"withApiHandler", "withHandler"} :
          LET r == fromRequest(heap, als[t], newStore(heap), req)
          IN  /\ heap' = r.heap
              /\ als' = [als EXCEPT ![t] = r.stack]
              /\ obs' = Obs(t, op, Undefined, Returns(Undefined), getStore(als[t]), TRUE)
    /\ UNCHANGED <<mine, writer, bndVars, repoVars, errVars, svcVars>>

WithContext(t) ==
    /\ \E o \in StoreIds : IsFree(heap, o)
    /\ \E boots \in Bootstraps :
          LET r == withContext(heap, als[t], newStore(heap), session, lookup, boots)
          IN  /\ heap' = r.heap
              /\ als' = [als EXCEPT ![t] = r.stack]
              /\ obs' = Obs(t, "withContext", Undefined, r.out, getStore(als[t]),
                            r.out.error = "none")
    /\ UNCHANGED <<mine, writer, bndVars, repoVars, errVars, svcVars>>

NextBnd ==
    \/ Middleware
    \/ \E t \in Requests :
          \/ WithApiHandler(t)
          \/ WithContext(t)
          \/ Exit(t)

SpecBnd == InitBnd /\ [][NextBnd]_vars

----------------------------------------------------------------------------
(* A handler throws; the wrapper around it answers                            *)

InitErr ==
    /\ err \in Errors
    /\ resp = NoResponse
    /\ NoRequests
    /\ NoTraffic
    /\ store = [i \in VaultIds |-> NoRow]
    /\ now = 1
    /\ last = Idle
    /\ NoUpdate
    /\ NoBootstrap

\* withErrorHandler / withApiErrorHandler: catch (error) { return handleError(...) }
ErrorHandlerResponds ==
    /\ resp = NoResponse
    /\ \E wrapper \in {"withErrorHandler", "withApiErrorHandler"} :
          resp' = handleError(wrapper, err, err.production)
    /\ UNCHANGED <<err, repoVars, ctxVars, bndVars, svcVars>>

\* MiddlewareService.withHandler / withApiHandler:
\* catch (error) { return MiddlewareService.handleError(...) }
MiddlewareResponds ==
    /\ resp = NoResponse
    /\ \E wrapper \in {"MiddlewareService.withHandler", "MiddlewareService.withApiHandler"} :
          resp' = MiddlewareService_handleError(wrapper, err)
    /\ UNCHANGED <<err, repoVars, ctxVars, bndVars, svcVars>>

NextErr ==
    \/ ErrorHandlerResponds
    \/ MiddlewareResponds

SpecErr == InitErr /\ [][NextErr]_vars

----------------------------------------------------------------------------
(* updateVault among concurrent deletes                                       *)

InitSvc ==
    /\ store \in SeedStores
    /\ now = Cardinality(Stored(store)) + 1
    /\ last = Idle
    /\ NoUpdate
    /\ NoBootstrap
    /\ NoRequests
    /\ NoTraffic
    /\ NoThrow

\* request.validate(); existingVault = await this.getVaultById(id)
UpdateCheck ==
    /\ pending.phase = "idle"
    /\ \E ctx \in Contexts, id \in QueryIds, request \in VaultUpdateRequests :
          \E o \in getVaultById(store, ctx, id) :
             pending' = [NoCall EXCEPT
                            !.phase = IF o.res.thrown \/ o.res.data = <<>>
                                         THEN "failed" ELSE "checked",
                            !.ctx = ctx, !.id = id, !.request = request]
    /\ UNCHANGED <<di, callers, repoVars, ctxVars, bndVars, errVars>>

\* { data: vaultEntity } = await findById(id); updatedVault = vaultEntity.with(...)
UpdateFetch ==
    /\ pending.phase = "checked"
    /\ \E o \in findById(store, pending.ctx, pending.id) :
          pending' = IF o.res.thrown \/ o.res.data = <<>>
                        THEN [pending EXCEPT !.phase = "failed"]
                        ELSE [pending EXCEPT
                                 !.phase = "read",
                                 !.entity = updatedVault(o.res.data[1], pending.request)]
    /\ UNCHANGED <<di, callers, repoVars, ctxVars, bndVars, errVars>>

\* await this.params.vaultRepository.update(updatedVault)
UpdateWrite ==
    /\ pending.phase = "read"
    /\ \E o \in update(store, pending.ctx, pending.entity) :
          /\ store' = o.store
          /\ pending' = [pending EXCEPT
                            !.phase = IF o.res.thrown THEN "failed" ELSE "written"]
    /\ UNCHANGED <<now, last, di, callers, ctxVars, bndVars, errVars>>

UpdateReturn ==
    /\ pending.phase \in {"failed", "written"}
    /\ pending' = NoCall
    /\ UNCHANGED <<di, callers, repoVars, ctxVars, bndVars, errVars>>

\* deleteVault(id) of another request; `deleted` notes that it completed on the vault
\* after updateVault had read it
DeleteVault ==
    /\ \E ctx \in Contexts, id \in QueryIds :
          \E o \in delete(store, ctx, id) :
             /\ store' = o.store
             /\ pending' = IF /\ pending.phase = "read" /\ pending.id = id
                              /\ ~o.res.thrown
                              /\ IsStored(o.store, id) /\ o.store[id].status = "deleted"
                              /\ o.store[id].tenantId = ctx.tenantId
                              THEN [pending EXCEPT !.deleted = TRUE]
                              ELSE pending
    /\ UNCHANGED <<now, last, di, callers, ctxVars, bndVars, errVars>>

NextSvc ==
    \/ UpdateCheck
    \/ UpdateFetch
    \/ UpdateWrite
    \/ UpdateReturn
    \/ DeleteVault

SpecSvc == InitSvc /\ [][NextSvc]_vars

----------------------------------------------------------------------------
(* Concurrent calls of ensureBootstrap() and bootstrap()                      *)

InitDI ==
    /\ NoBootstrap
    /\ NoUpdate
    /\ NoRequests
    /\ NoTraffic
    /\ NoThrow
    /\ store = [i \in VaultIds |-> NoRow]
    /\ now = 1
    /\ last = Idle

EnsureBootstrap(c) ==
    /\ callers[c].pc = "idle"
    /\ Cardinality(FreePromises(di)) >= 2
    /\ \E ok \in BOOLEAN :
          LET r == ensureBootstrap(di, ok)
          IN  /\ di' = r.di
              /\ callers' = [callers EXCEPT ![c] = Caller(di, "ensureBootstrap", r.promise)]
    /\ UNCHANGED <<pending, repoVars, ctxVars, bndVars, errVars>>

\* a direct call of the exported bootstrap(), awaited
Bootstrap(c) ==
    /\ callers[c].pc = "idle"
    /\ FreePromises(di) # {}
    /\ \E ok \in BOOLEAN :
          LET r == bootstrap(di, ok)
          IN  /\ di' = r.di
              /\ callers' = [callers EXCEPT ![c] = Caller(di, "bootstrap", r.promise)]
    /\ UNCHANGED <<pending, repoVars, ctxVars, bndVars, errVars>>

Settle ==
    /\ \E p \in PromiseIds :
          /\ di.promises[p] \in {"resolving", "rejecting"}
          /\ di' = settle(di, p)
    /\ UNCHANGED <<callers, pending, repoVars, ctxVars, bndVars, errVars>>

\* the await ends: the call returns, or throws what the promise was rejected with
Resume(c) ==
    /\ callers[c].pc = "awaiting"
    /\ di.promises[callers[c].on] \in {"resolved", "rejected"}
    /\ callers' = [callers EXCEPT
                      ![c].pc = IF di.promises[callers[c].on] = "resolved"
                                   THEN "returned" ELSE "thrown"]
    /\ UNCHANGED <<di, pending, repoVars, ctxVars, bndVars, errVars>>

Done(c) ==
    /\ callers[c].pc \in {"returned", "thrown"}
    /\ callers' = [callers EXCEPT ![c] = NoCaller]
    /\ UNCHANGED <<di, pending, repoVars, ctxVars, bndVars, errVars>>

NextDI ==
    \/ Settle
    \/ \E c \in Callers :
          \/ EnsureBootstrap(c)
          \/ Bootstrap(c)
          \/ Resume(c)
          \/ Done(c)

SpecDI == InitDI /\ [][NextDI]_vars

----------------------------------------------------------------------------
(* Properties *)

\* the vaults of the table `s` that belong to tenant t
OfTenant(s, t) == {r \in Stored(s) : r.tenantId = t}

\* the rows a findAll returned, as a set
Returned == {last.res.data[i] : i \in 1..Len(last.res.data)}

\* C1: findAll and count, called with a filter validate() accepts in a context of
\* tenant A, return (count) only vaults of tenant A.
C1_FindAllCountTenantScoped ==
    (last.op \in {"findAll", "count"} /\ last.ctx.tenantId # Null /\ validate(last.arg))
    => /\ ~last.res.thrown
       /\ last.op = "findAll" => \A r \in Returned : r.tenantId = last.ctx.tenantId
       /\ last.op = "count" =>
             last.res.data <= Cardinality(OfTenant(last.before, last.ctx.tenantId))

\* C2: findById of a stored vault of another tenant resolves with {data: null,
\* error: null}, which is also what it resolves with for an id that is not stored.
C2_FindByIdForeignIsNotFound ==
    (last.op = "findById" /\ last.ctx.tenantId # Null
        /\ IsStored(last.before, last.arg)
        /\ last.before[last.arg].tenantId # last.ctx.tenantId)
    => /\ last.res = Resolved(<<>>)
       /\ \A o \in findById(last.before, last.ctx, MaxVaults + 1) : o.res = last.res

C2_Witness ==
    /\ last.op = "findById" /\ last.ctx.tenantId # Null
    /\ IsStored(last.before, last.arg)
    /\ last.before[last.arg].tenantId # last.ctx.tenantId
    /\ last.before[last.arg].status = "published"

\* C3: a repository operation executed in a context of tenant A leaves every stored
\* vault of another tenant as it was, field by field.
C3_OtherTenantsVaultsUnchanged ==
    (last.op # "none" /\ last.ctx.tenantId # Null)
    => \A i \in VaultIds :
          (IsStored(last.before, i) /\ last.before[i].tenantId # last.ctx.tenantId)
          => store[i] = last.before[i]

\* update() was handed another tenant's vault relabelled with the context's tenant
C3_Witness ==
    /\ last.op = "update" /\ last.ctx.tenantId # Null
    /\ IsStored(last.before, last.arg.id)
    /\ last.before[last.arg.id].tenantId # last.ctx.tenantId
    /\ last.arg.tenantId = last.ctx.tenantId
    /\ last.db = "write"

\* C4: a vault persisted by createVault in a context (A, U) is stored with
\* tenantId = A and createdBy = U whatever the body says; without a tenant in the
\* context createVault fails and persists nothing.
C4_CreateUsesContextIdentity ==
    last.op = "createVault"
    => /\ \A i \in VaultIds :
             (IsStored(store, i) /\ ~IsStored(last.before, i))
             => /\ store[i].tenantId = last.ctx.tenantId
                /\ store[i].createdBy = last.ctx.userId
       /\ \A i \in VaultIds : IsStored(last.before, i) => store[i] = last.before[i]
       /\ last.ctx.tenantId = Null
             => last.res.thrown /\ store = last.before /\ last.db = "none"

\* a vault was persisted although the body named another tenant and another creator
C4_Witness ==
    /\ last.op = "createVault" /\ store # last.before
    /\ last.arg.tenantId # Null /\ last.arg.tenantId # last.ctx.tenantId
    /\ last.arg.createdBy # Null /\ last.arg.createdBy # last.ctx.userId

\* C5: without a tenant in the context, findById, findAll, count, update and delete
\* fail with UNAUTHORIZED (401) and send nothing to the database.
C5_MissingTenantIsUnauthorized ==
    (last.op \in {"findById", "findAll", "count", "update", "delete"}
        /\ last.ctx.tenantId = Null)
    => /\ last.res.thrown
       /\ last.res.error.code = "UNAUTHORIZED"
       /\ last.res.error.statusCode = 401
       /\ last.db = "none"
       /\ store = last.before

\* C6: update(entity) with entity.tenantId different from the context's tenant fails
\* with FORBIDDEN (403) before anything is written.
C6_TenantMismatchIsForbidden ==
    (last.op = "update" /\ last.ctx.tenantId # Null
        /\ last.arg.tenantId # last.ctx.tenantId)
    => /\ last.res.thrown
       /\ last.res.error.code = "FORBIDDEN"
       /\ last.res.error.statusCode = 403
       /\ last.db = "none"
       /\ store = last.before

\* C7: delete(id) changes a vault only if findById(id) in the same context would
\* return that vault.
C7_DeleteScopedLikeFindById ==
    last.op = "delete"
    => \A i \in VaultIds :
          store[i] # last.before[i]
          => \E o \in findById(last.before, last.ctx, i) :
                o.res.data = <<last.before[i]>>

\* C8: after delete(id) succeeded on a stored vault of the context's tenant, the row
\* is still stored with status "deleted" and findById(id) in the same context
\* resolves with data = null.
C8_DeletedIsNotFound ==
    (last.op = "delete" /\ ~last.res.thrown
        /\ IsStored(last.before, last.arg)
        /\ last.before[last.arg].tenantId = last.ctx.tenantId)
    => /\ IsStored(store, last.arg)
       /\ store[last.arg].status = "deleted"
       /\ \A o \in findById(store, last.ctx, last.arg) : o.res.data = <<>>

\* C9: with a user U in the context, findById, findAll and count return (count) only
\* vaults created by U; without a user, findById finds every vault of the tenant.
C9_ReadsScopedToCreator ==
    (last.op \in {"findById", "findAll", "count"} /\ ~last.res.thrown)
    => /\ (last.ctx.userId # Null /\ last.op # "count")
             => \A r \in Returned : r.createdBy = last.ctx.userId
       /\ (last.ctx.userId # Null /\ last.op = "count")
             => last.res.data <=
                   Cardinality({r \in Stored(last.before) : r.createdBy = last.ctx.userId})
       /\ (last.ctx.userId = Null /\ last.op = "findById"
              /\ IsStored(last.before, last.arg)
              /\ last.before[last.arg].tenantId = last.ctx.tenantId)
             => last.res.data = <<last.before[last.arg]>>

\* C10: findAll and count return (count) a vault whose status is "deleted" only when
\* the filter asks for status = "deleted".
C10_DeletedOnlyOnRequest ==
    (last.op \in {"findAll", "count"} /\ ~last.res.thrown
        /\ last.arg.status # <<"deleted">>)
    => /\ last.op = "findAll" => \A r \in Returned : r.status # "deleted"
       /\ last.op = "count" =>
             last.res.data <=
                Cardinality({r \in Stored(last.before) : r.status # "deleted"})

\* a list without a status filter over a table that holds a deleted vault of the
\* context's tenant and creator
C10_Witness ==
    /\ last.op \in {"findAll", "count"} /\ ~last.res.thrown
    /\ last.arg.status = <<>>
    /\ \E r \in Stored(last.before) :
          /\ r.status = "deleted"
          /\ r.tenantId = last.ctx.tenantId
          /\ r.createdBy = last.ctx.userId

\* the operations of VaultRepositoryImpl the state machine calls directly
RepositoryOps == {"findById", "findAll", "count", "update", "delete"}

\* C11: every repository operation completes by returning {data, error}; a failure
\* (store failure, missing tenant, tenant mismatch) is a non-null error of the
\* returned result and never a rejection of the call.
C11_FailuresReturnedInResult ==
    last.op \in RepositoryOps => ~last.res.thrown

\* the store the caller of the last context call was in when it called
Active == getStore(als[obs.t])

\* C12: under every interleaving of requests that each entered their own store by
\* run, a get or tryGet of a key returns the value the same request wrote to it last,
\* or the value of its initial record; a set of another request is never observed.
C12_GetReturnsOwnLastWrite ==
    (obs.op \in {"get", "tryGet"} /\ hasContext(als[obs.t]))
    => /\ (obs.out.error = "none") => obs.out.val = mine[obs.t][obs.key]
       /\ (obs.out.error # "none") => mine[obs.t][obs.key] = Undefined

\* a request reads back the user id it wrote, after another request has written
\* another user id to the same key of its own store
C12_Witness ==
    /\ obs.op = "get" /\ obs.key = USER_ID /\ obs.out = Returns("user_2")
    /\ writer[USER_ID] \notin {0, obs.t}
    /\ \E u \in Requests :
          /\ u # obs.t /\ hasContext(als[u])
          /\ heap[getStore(als[u])][USER_ID] = "user_3"

StrictAccessors == {"get", "getUserId", "getUserEmail", "getTenantId"}

TolerantAccessors == {"tryGet", "tryGetUserId", "tryGetTenantId"}

\* C17: without an active context a strict accessor fails with NoContextError and a
\* tolerant accessor returns undefined without failing.
C17_NoContextStrictFailsTolerantAbsent ==
    (obs.t # 0 /\ ~hasContext(als[obs.t]))
    => /\ obs.op \in StrictAccessors => obs.out.error = "NoContextError"
       /\ obs.op \in TolerantAccessors => obs.out = Returns(Undefined)

\* a strict accessor is called outside every context while another request is inside
\* a context that holds a user id
C17_Witness ==
    /\ obs.op = "getUserId" /\ ~hasContext(als[obs.t])
    /\ \E u \in Requests : hasContext(als[u]) /\ Truthy(heap[getStore(als[u])][USER_ID])

\* C18: in a context without a user id (tenant id, user email), the key absent from
\* the store or unset, getUserId (getTenantId, getUserEmail) fails with its own
\* "... not found in context" error, not with ContextKeyError.
C18_MissingIdentityIsDomainError ==
    (obs.op \in {"getUserId", "getTenantId", "getUserEmail"}
        /\ hasContext(als[obs.t]) /\ ~Truthy(heap[Active][obs.key]))
    => /\ obs.out.error = "NoContextError"
       /\ obs.out.message =
             CASE obs.op = "getUserId" -> "User ID not found in context"
               [] obs.op = "getTenantId" -> "Tenant ID not found in context"
               [] obs.op = "getUserEmail" -> "User email not found in context"

BoundaryOps == {"withContext", "withApiHandler", "withHandler"}

\* C13: a boundary invoked while a context is active runs its handler in the store
\* that was active (same requestId, user id and tenant id); no second store is
\* entered on top of it.
C13_NoNestedShadowing ==
    (obs.op \in BoundaryOps /\ obs.before # 0 /\ obs.ran)
    => /\ Active = obs.before
       /\ \A k \in {"requestId", USER_ID, TENANT_ID} :
             heap[Active][k] = heap[obs.before][k]

\* two context values agree: equal, or both missing (undefined or '')
SameValue(a, b) == a = b \/ (~Truthy(a) /\ ~Truthy(b))

\* C14: for one signed-in user, the store a route handler behind the middleware and
\* withApiHandler runs in and the store a server action handler runs in agree on user
\* id, user email and tenant id.
C14_BoundariesAgreeOnIdentity ==
    (obs.op \in {"withApiHandler", "withHandler"} /\ obs.before = 0
        /\ Truthy(session.id) /\ ~isPublicRoute(req.path))
    => \A boots \in Bootstraps :
          LET a == withContext([o \in StoreIds |-> NoRecord], <<>>, 1,
                               session, lookup, boots)
          IN  a.out.error = "none"
              => \A k \in {USER_ID, USER_EMAIL, TENANT_ID} :
                    SameValue(heap[Active][k], a.heap[1][k])

\* getTenantIdFromUser finds no tenant id for the signed-in user
NoTenantFound ==
    /\ Truthy(session.id)
    /\ \A b \in BOOLEAN : getTenantIdFromUser(session, lookup, b).val = Undefined

\* C15 as stated: whenever getTenantIdFromUser comes back with null,
\* BaseAction.withContext runs the handler, in a context without tenant id.
C15_HandlerAlwaysRuns ==
    (obs.op = "withContext" /\ obs.before = 0 /\ NoTenantFound)
    => /\ obs.ran
       /\ hasContext(als[obs.t])
       /\ heap[Active][TENANT_ID] = Undefined

\* C15: getTenantIdFromUser never throws; it returns the metadata's tenant id
\* without asking the database, else the stored user's tenantId, else null (bootstrap
\* failed, lookup threw or reported an error, user not stored or without tenantId);
\* BaseAction.withContext then runs the handler in a context with that tenant id or
\* none, unless ensureBootstrap() fails in front of the handler.
C15_TenantLookupDegrades ==
    (obs.op = "withContext" /\ obs.before = 0 /\ Truthy(session.id))
    => /\ \A b \in BOOLEAN :
             LET tl == getTenantIdFromUser(session, lookup, b)
                 meta == extractTenantIdFromMetadata(session)
             IN  /\ ~tl.threw
                 /\ Truthy(meta) => (tl.val = meta /\ ~tl.db)
                 /\ ~Truthy(meta) =>
                       tl.val = IF b /\ ~lookup.threw /\ lookup.error = "none"
                                     /\ lookup.stored /\ Truthy(lookup.tenantId)
                                   THEN lookup.tenantId ELSE Undefined
       /\ obs.ran \/ obs.out = Throws("Error", "bootstrap failed")
       /\ obs.ran =>
             /\ hasContext(als[obs.t])
             /\ heap[Active][USER_ID] = session.id
             /\ heap[Active][TENANT_ID] \in
                   {getTenantIdFromUser(session, lookup, b).val : b \in BOOLEAN}

\* the lookup threw for a user without tenant id in the metadata, and the handler
\* runs in a context that has the user id and no tenant id
C15_Witness ==
    /\ obs.op = "withContext" /\ obs.before = 0 /\ obs.ran
    /\ Truthy(session.id) /\ ~Truthy(extractTenantIdFromMetadata(session))
    /\ lookup.threw
    /\ heap[Active][USER_ID] = session.id
    /\ heap[Active][TENANT_ID] = Undefined

\* C16: without a resolvable identity each boundary still runs its handler in an
\* active context whose requestId, requestPath, requestMethod and requestStartTime
\* are set and whose tryGetUserId() and tryGetTenantId() are undefined.
C16_AnonymousContext ==
    (obs.op \in BoundaryOps /\ obs.before = 0 /\ obs.ran /\ ~Truthy(session.id))
    => /\ hasContext(als[obs.t])
       /\ \A k \in {"requestId", "requestPath", "requestMethod", "requestStartTime"} :
             Truthy(heap[Active][k])
       /\ tryGetUserIdOf(heap, als[obs.t]) = Returns(Undefined)
       /\ tryGetTenantId(heap, als[obs.t]) = Returns(Undefined)

\* some value of the details is the secret, at any depth
RECURSIVE Exposes(_)
Exposes(details) ==
    \E i \in 1..Len(details) :
       details[i].val = Secret \/ Exposes(details[i].kids)

\* C19: the body of the response an outermost route wrapper sends for an error never
\* holds the value of a sensitive key of the error's details, at whatever depth the
\* key lies, inside nested objects or objects that are elements of arrays.
C19_ResponseNeverExposesSecret ==
    resp # NoResponse => ~Exposes(resp.body.details)

\* C20: sanitizeErrorDetails replaces by the redaction marker the value of every key
\* that contains a name of the sensitive list, compared case-insensitively.
C20_SensitiveKeysRedacted ==
    (resp.wrapper \in {"withErrorHandler", "withApiErrorHandler"}
        /\ Len(resp.body.details) = Len(err.details))
    => \A i \in 1..Len(err.details) :
          IsSensitive(err.details[i].key) => resp.body.details[i].val = REDACTED

\* the kind an error code denotes: the Err factory that builds it, or the group of
\* the ErrorCode enumeration it stands in
KindOf(code) ==
    CASE code \in {"VALIDATION_ERROR", "BAD_REQUEST"} -> "validation"
      [] code \in {"NOT_FOUND", "USER_NOT_FOUND", "TENANT_NOT_FOUND"} -> "not_found"
      [] code \in {"UNAUTHORIZED", "USER_INVALID_CREDENTIALS", "TOKEN_EXPIRED",
                   "TOKEN_INVALID"} -> "unauthorized"
      [] code \in {"FORBIDDEN", "USER_ACCOUNT_DISABLED", "TENANT_ACCESS_DENIED",
                   "INSUFFICIENT_PERMISSIONS"} -> "forbidden"
      [] code \in {"CONFLICT", "USER_ALREADY_EXISTS", "TENANT_ALREADY_EXISTS"} -> "conflict"
      [] code \in {"DATABASE_ERROR", "DATABASE_CONNECTION_ERROR", "DATABASE_QUERY_ERROR",
                   "DATABASE_CONSTRAINT_ERROR"} -> "database"
      [] OTHER -> "internal"

\* the codes of the Err factories
FactoryCodes ==
    {"VALIDATION_ERROR", "NOT_FOUND", "UNAUTHORIZED", "FORBIDDEN", "CONFLICT",
     "DATABASE_ERROR", "INTERNAL_ERROR"}

\* kind -> wire status
TaxonomyStatus(kind) ==
    CASE kind = "validation" -> 400
      [] kind = "unauthorized" -> 401
      [] kind = "forbidden" -> 403
      [] kind = "not_found" -> 404
      [] kind = "conflict" -> 409
      [] kind = "rate_limit" -> 429
      [] kind = "database" -> 500
      [] OTHER -> 500

ErrorHandlerWrappers == {"withErrorHandler", "withApiErrorHandler"}

\* C21: in production no error response of an outermost route wrapper carries
\* internal_error, and the response for a database-kind error has empty details and
\* the generic message, on the error-handler path and on the MiddlewareService path.
C21_ProductionHidesInternals ==
    (resp # NoResponse /\ err.production)
    => /\ resp.body.internal_error = Undefined
       /\ KindOf(err.code) = "database"
          => /\ resp.body.details = <<>>
             /\ resp.body.message = "An error occurred while processing your request."

\* C22: an error built with an explicit code is answered with the kind and the status
\* its code denotes, whatever its message and its details hold.
C22_ExplicitCodeDecidesKind ==
    (resp.wrapper \in ErrorHandlerWrappers /\ err.code \in FactoryCodes)
    => /\ detectErrorType(err) = KindOf(err.code)
       /\ resp.status = STATUS_CODES[err.code]

\* C23: the HTTP status of every error response equals the statusCode of its body and
\* is the taxonomy status of the kind of the error's code, on both wrapper paths.
C23_StatusIsTaxonomyStatus ==
    resp # NoResponse
    => /\ resp.status = resp.body.statusCode
       /\ resp.status = TaxonomyStatus(KindOf(err.code))

\* C24: an outermost route wrapper writes an error to the log exactly when its kind is
\* neither validation nor not-found, on both wrapper paths.
C24_LoggedUnlessValidationOrNotFound ==
    resp # NoResponse
    => (resp.logged <=> KindOf(err.code) \notin {"validation", "not_found"})

\* C25: for a path that is not public, when no authenticated user is resolved (no
\* session, identity resolution failed, or building the rejection threw),
\* handleRequest does not pass the request through: an API path gets the 401, a page
\* the redirect to /login carrying the path.
C25_UnauthenticatedNeverPassesThrough ==
    (obs.op = "handleRequest" /\ ~isPublicRoute(req.path)
        /\ (~Truthy(session.id) \/ obs.key = "getCurrentUser"))
    => /\ req.stage # "next"
       /\ isApiRoute(req.path) => req.stage = "401"
       /\ ~isApiRoute(req.path)
          => (req.stage = "redirect" /\ req.location = <<"/login", req.path>>)

\* C26: in the context a handler wrapped by withApiHandler runs in, the user id and
\* the tenant id are absent or those of the authenticated session; a value the client
\* put into the x-user-id or x-tenant-id header is never the context identity.
C26_ContextIdentityIsSessions ==
    obs.op \in {"withApiHandler", "withHandler"}
    => /\ ~Truthy(heap[Active][USER_ID]) \/ heap[Active][USER_ID] = session.id
       /\ ~Truthy(heap[Active][TENANT_ID])
          \/ heap[Active][TENANT_ID] = extractTenantIdFromUser(session)

\* C27: once delete(id) has completed on a vault that a concurrent updateVault(id, ...)
\* had read before, the write of that updateVault leaves the status "deleted".
C27_DeleteSurvivesConcurrentUpdate ==
    (pending.phase = "written" /\ pending.deleted)
    => store[pending.id].status = "deleted"

\* C28: however ensureBootstrap() calls interleave, the container registration
\* succeeds at most once, and an ensureBootstrap() call that has returned has the
\* registration behind it.
C28_RegistersOnceBeforeReturn ==
    /\ di.registered <= 1
    /\ \A c \in Callers :
          (callers[c].op = "ensureBootstrap" /\ callers[c].pc = "returned")
          => di.registered = 1

\* two concurrent ensureBootstrap() calls awaited the same promise and have both
\* returned, after one registration
C28_Witness ==
    /\ di.registered = 1
    /\ \E c1, c2 \in Callers :
          /\ c1 # c2
          /\ \A c \in {c1, c2} :
                callers[c].op = "ensureBootstrap" /\ callers[c].pc = "returned"
          /\ callers[c1].on = callers[c2].on /\ callers[c1].on # 0

\* C29: a failed initialization is not cached: no ensureBootstrap() call awaits a
\* promise that had been rejected before the call; it runs the initialization again.
C29_FailureNotCached ==
    \A c \in Callers : callers[c].op = "ensureBootstrap" => ~callers[c].stale

\* C30: for every filter validate() accepts, findAll resolves with at most
\* filter.getLimit() vaults (the limit a listVaults response reports), and never with
\* more than the largest limit allowed.
C30_FindAllWithinLimit ==
    (last.op = "findAll" /\ ~last.res.thrown /\ validate(last.arg))
    => /\ Len(last.res.data) <= getLimit(last.arg)
       /\ Len(last.res.data) <= MaxLimitAllowed

====
